---- MODULE Spec2Model ----
(***************************************************************************)
(* Settlement of on-chain buy/sell orders against an off-chain reserve     *)
(* counter and an ERC-3643 token:                                          *)
(*   OrdersService        (orders/orders.service.ts, latest revision)      *)
(*   TokenService         (web3/services/token.service.ts, latest revision)*)
(*   EventListenerService (web3/services/event-listener.service.ts)        *)
(*   SupabaseService      (reserve store; its code is not part of the      *)
(*                         sources, it is modelled from the specification) *)
(*                                                                         *)
(* Amounts.  A request's assetAmount is the rational amtN / amtD.  The     *)
(* reserve and roundedAssetAmount are counted in hundredths of a token,    *)
(* token balances in the token's smallest unit (10^-decimals).  Math.round *)
(* is computed exactly (the inputs are away from rounding ties); the       *)
(* product under Math.floor is the IEEE-754 double product, tabulated for  *)
(* the amounts of the model in FloorShortfall.                             *)
(***************************************************************************)
EXTENDS Integers, Sequences, FiniteSets, TLC

(***************************************************************************)
(* Bounds of the model.                                                    *)
(***************************************************************************)
\* settlements entered through the synchronous buy/sell entry points
MaxOrders == 2
\* concurrent sells of the sells-only specification
MaxSells == 3

\* settlements started by event handlers
MaxEventCalls == 3
\* reconnects that open a new connection
MaxReconnects == 2
\* deliveries of one on-chain event
MaxDeliveries == 2
\* direct calls of TokenService.mintTokens / burnTokens
MaxTokenCalls == 2
\* calls of onModuleDestroy
MaxShutdowns == 2
\* calls of TokenService.withdrawUSDC
MaxWithdrawals == 2
\* other transactions the operating signer submits
MaxOtherTxs == 1

Max(a, b) == IF a > b THEN a ELSE b
NumProcs == Max(Max(MaxOrders, MaxTokenCalls), Max(MaxSells, MaxEventCalls))
Procs == 1..NumProcs

(***************************************************************************)
(* Input domains.                                                          *)
(***************************************************************************)
Users == {"alice", "bob"}
Token == "token"
AssetSymbols == {"AAPL", "TSLA"}
\* assetAmount of the synchronous requests, in thousandths of a token
AssetAmounts == {-1000, 2000, 2506}
\* the reserve of AAPL after construction, in hundredths; TSLA has no record
InitReserves == {500}
\* token decimals the contract may be deployed with
Decimals == {1, 2}

VARIABLES
    reserve,    \* reserve store: asset symbol -> ReserveRecord or not found
    st,         \* the settlement calls in progress and their outcome
    verified,   \* identity registry: the verified addresses
    isAgent,    \* token contract: the operating signer is an agent
    decimals,   \* token contract: decimals()
    balance,    \* token contract: balanceOf, in smallest units
    reserve0,   \* history: the reserve store after construction
    started,        \* onModuleInit has been called
    wssProvider,    \* this.wssProvider: the provider in use
    providers,      \* the providers created so far are 0..providers
    provOpen,       \* the providers that have not been destroyed
    orderContract,  \* this.orderContract: 0 while unset, else a contract
    contracts,      \* the Contract objects created, with their listeners
    subs,           \* subscribeToEvents calls waiting at `await ready`
    delivered,      \* how often the chain has delivered each event
    lastProbe,      \* history: the last checkLatestBlock tick
    shutdowns,      \* history: the onModuleDestroy calls made
    signer,         \* the operating signer's account on the node
    withdrawals     \* the withdrawUSDC calls in progress and their outcome

chain == <<verified, isAgent, decimals, balance>>
ingest == <<started, wssProvider, providers, provOpen, orderContract, contracts,
            subs, delivered, lastProbe, shutdowns>>
custody == <<signer, withdrawals>>
vars == <<reserve, st, chain, reserve0, ingest, custody>>

RECURSIVE Pow10(_)
Pow10(n) == IF n = 0 THEN 1 ELSE 10 * Pow10(n - 1)

RECURSIVE SumOver(_, _)
\* sum of f[x] over the finite set S
SumOver(f, S) ==
    IF S = {} THEN 0
    ELSE LET x == CHOOSE y \in S : TRUE IN f[x] + SumOver(f, S \ {x})

(***************************************************************************)
(* OrderRequest and the state of one buyOrder / sellOrder call.            *)
(***************************************************************************)
OrderRequest(user, token, assetSymbol, usdcAmount, amtN, amtD) ==
    [user |-> user, token |-> token, assetSymbol |-> assetSymbol,
     usdcAmount |-> usdcAmount, amtN |-> amtN, amtD |-> amtD]

NoRequest == OrderRequest("", "", "", 0, 0, 1)

NoRecord == [found |-> FALSE, reserve_amount |-> 0]
ReserveRecord(amount) == [found |-> TRUE, reserve_amount |-> amount]

\* what a call that has not returned has given its caller
NoResponse == [success |-> FALSE]

\* what a call that has not reached the token contract has read from it
NoSession == [read |-> FALSE, decimals |-> 0, isAgent |-> FALSE]

Idle ==
    [pc |-> "idle", kind |-> "none", req |-> NoRequest, rounded |-> 0,
     cur |-> NoRecord, upd |-> NoRecord, applied |-> FALSE, delta |-> 0,
     ledgerCalled |-> FALSE, err |-> "", txHash |-> 0, txAmount |-> 0,
     ev |-> 0, dl |-> 0, estimates |-> 0, submits |-> 0, result |-> NoResponse,
     after |-> 0, calls |-> << >>, session |-> NoSession, gasEstimate |-> 0,
     gasLimit |-> 0, registry |-> ""]

\* the requests of the synchronous entry points: a verified user with every
\* amount and an unverified user on the asset with a record, a request on the
\* asset without a record, and requests the validation rejects
Requests ==
    {OrderRequest("alice", Token, "AAPL", 100, a, 1000) : a \in AssetAmounts}
    \cup {OrderRequest("bob", Token, "AAPL", 100, 2000, 1000),
          OrderRequest("alice", Token, "TSLA", 100, 2000, 1000),
          OrderRequest("alice", Token, "", 100, 2000, 1000),
          OrderRequest("alice", Token, "AAPL", 0, 2000, 1000)}

\* mutant: Math.floor in place of Math.round
RoundedAssetAmount_Floor(req) == (100 * req.amtN) \div req.amtD

\* Math.round(assetAmount * 100) / 100, in hundredths: round half up
RoundedAssetAmount(req) == (200 * req.amtN + req.amtD) \div (2 * req.amtD)

\* mutant: the amount is not validated
InvalidInput_SymbolOnly(req) == req.assetSymbol = ""

\* if (!assetSymbol || usdcAmount <= 0) throw BadRequestException
InvalidInput(req) == req.assetSymbol = "" \/ req.usdcAmount <= 0

(***************************************************************************)
(* Reserve store (SupabaseService), modelled from the specification:       *)
(* get(symbol) and the atomic, conditional applyDelta(symbol, delta).      *)
(* What applyDelta does for a symbol without a record is not specified:    *)
(* `create` chooses between creating the record and failing.               *)
(***************************************************************************)
getAssetReserve(symbol) == reserve[symbol]

\* mutant: the delta is added without the condition on the result
updateAssetReserve_Unconditional(symbol, delta, create) ==
    LET rec == reserve[symbol]
        amount == IF rec.found THEN rec.reserve_amount + delta ELSE delta
    IN  IF ~rec.found /\ ~create
        THEN [ok |-> FALSE, err |-> "ReserveNotFound", rec |-> NoRecord]
        ELSE [ok |-> TRUE, err |-> "", rec |-> ReserveRecord(amount)]

updateAssetReserve(symbol, delta, create) ==
    LET rec == reserve[symbol]
        amount == IF rec.found THEN rec.reserve_amount + delta ELSE delta
    IN  IF ~rec.found /\ ~create
        THEN [ok |-> FALSE, err |-> "ReserveNotFound", rec |-> NoRecord]
        ELSE IF amount < 0
        THEN [ok |-> FALSE, err |-> "InsufficientReserve", rec |-> NoRecord]
        ELSE [ok |-> TRUE, err |-> "", rec |-> ReserveRecord(amount)]

(***************************************************************************)
(* TokenService.mintTokens / burnTokens.                                   *)
(***************************************************************************)
IsAddress(a) == a \in Users \cup {Token}

\* mutant: a failed registry call is taken as verified
verifyUserIdentity_FailOpen(user, registryOk) ==
    ~registryOk \/ user \in verified

\* verifyUserIdentity: the registry's isVerified(user); the catch returns
\* false when the call fails
verifyUserIdentity(user, registryOk) == registryOk /\ user \in verified

\* mutant: what the first call read is kept for the calls after it
LedgerSession_Cached ==
    IF st[1].session.read THEN st[1].session
    ELSE [read |-> TRUE, decimals |-> decimals, isAgent |-> isAgent]

\* what a call reads from the token contract once the user is verified:
\* token.decimals() and token.isAgent(agentSigner.address)
LedgerSession == [read |-> TRUE, decimals |-> decimals, isAgent |-> isAgent]

\* amount * factor is a product of IEEE-754 doubles: it can fall just below
\* the integer that the exact product of n / d and 10^k reaches, and
\* Math.floor then gives one less.  For the amounts of this model at 1 and 2
\* decimals it does so once: 2.51 * 100 = 250.99999999999997
FloorShortfall(n, d, k) == IF n * 100 = 251 * d /\ k = 2 THEN 1 ELSE 0

\* Math.floor(amount * factor) / factor for the amount n / d, parsed at the
\* decimals read: the amount in smallest units
Truncate(n, d) ==
    (n * Pow10(LedgerSession.decimals)) \div d
        - FloorShortfall(n, d, LedgerSession.decimals)

\* mutant: Math.ceil in place of Math.floor
TokenUnits_Ceil(hundredths) ==
    -((-(hundredths * Pow10(LedgerSession.decimals))) \div 100)

\* the same for the amount an order hands over, which has two decimal places
TokenUnits(hundredths) == Truncate(hundredths, 100)

\* mutant: the agent authorization of the signer is not checked
MintFailure_NoAgentCheck(user, token, units, registryOk, rpcOk) ==
    IF ~IsAddress(user) \/ ~IsAddress(token) THEN "InvalidAddress"
    ELSE IF ~verifyUserIdentity(user, registryOk) THEN "IdentityNotVerified"
    ELSE IF units < 0 THEN "ChainCallFailed"
    ELSE IF ~rpcOk THEN "ChainCallFailed"
    ELSE ""

\* the protocol of mintTokens up to the submission of `units` smallest units;
\* "" when it submits
MintFailure(user, token, units, registryOk, rpcOk) ==
    IF ~IsAddress(user) \/ ~IsAddress(token) THEN "InvalidAddress"
    ELSE IF ~verifyUserIdentity(user, registryOk) THEN "IdentityNotVerified"
    ELSE IF ~LedgerSession.isAgent THEN "UnauthorizedSigner"
    ELSE IF units < 0 THEN "ChainCallFailed"
    ELSE IF ~rpcOk THEN "ChainCallFailed"
    ELSE ""

\* mutant: a burn of the whole balance is refused
BurnFailure_WholeBalance(user, token, units, registryOk, rpcOk) ==
    IF ~IsAddress(user) \/ ~IsAddress(token) THEN "InvalidAddress"
    ELSE IF ~verifyUserIdentity(user, registryOk) THEN "IdentityNotVerified"
    ELSE IF ~LedgerSession.isAgent THEN "UnauthorizedSigner"
    ELSE IF balance[user] <= units THEN "InsufficientBalance"
    ELSE IF units < 0 THEN "ChainCallFailed"
    ELSE IF ~rpcOk THEN "ChainCallFailed"
    ELSE ""

\* the protocol of burnTokens up to the submission; "" when it submits
BurnFailure(user, token, units, registryOk, rpcOk) ==
    IF ~IsAddress(user) \/ ~IsAddress(token) THEN "InvalidAddress"
    ELSE IF ~verifyUserIdentity(user, registryOk) THEN "IdentityNotVerified"
    ELSE IF ~LedgerSession.isAgent THEN "UnauthorizedSigner"
    ELSE IF balance[user] < units THEN "InsufficientBalance"
    ELSE IF units < 0 THEN "ChainCallFailed"
    ELSE IF ~rpcOk THEN "ChainCallFailed"
    ELSE ""

\* the calls to the identity registry and the token contract that a
\* mintTokens / burnTokens call with this outcome has made, in the order of
\* the code: isVerified, decimals, isAgent, balanceOf (burn), estimateGas,
\* mint / burn
ChainCalls(kind, e, units) ==
    LET reads == <<"isVerified", "decimals", "isAgent">>
        checked == IF kind \in {"sell", "burn"} THEN Append(reads, "balanceOf")
                   ELSE reads
    IN  IF e = "InvalidAddress" THEN << >>
        ELSE IF e = "IdentityNotVerified" THEN <<"isVerified">>
        ELSE IF e = "UnauthorizedSigner" THEN reads
        ELSE IF e = "InsufficientBalance" THEN checked
        ELSE IF e = "ChainCallFailed" /\ units < 0 THEN Append(checked, "estimateGas")
        ELSE checked \o <<"estimateGas", "submit">>

\* the estimateGas calls a mintTokens / burnTokens call with this outcome has
\* made: the checks before it throw without one
GasEstimates(e) == IF e \in {"", "ChainCallFailed"} THEN 1 ELSE 0

\* mutant: the division is made before the multiplication
GasLimit_DivideFirst(gasEstimate) == (gasEstimate \div 100) * 120

\* gasLimit = (gasEstimate * BigInt(120)) / BigInt(100)
GasLimit(gasEstimate) == (gasEstimate * 120) \div 100

\* mutant: a rejected submission is made a second time
Submissions_Retry(e, units) ==
    IF e = "" THEN 1 ELSE IF e = "ChainCallFailed" /\ units >= 0 THEN 2 ELSE 0

\* the transactions the call has submitted (token.mint / token.burn): one when
\* it returns the hash, one when the node rejects the submission, none when
\* an earlier step throws (estimateGas for an amount that cannot be encoded)
Submissions(e, units) ==
    IF e = "" THEN 1 ELSE IF e = "ChainCallFailed" /\ units >= 0 THEN 1 ELSE 0

(***************************************************************************)
(* OrdersService.buyOrder / sellOrder, one action per await.               *)
(***************************************************************************)
Fail(p, e) == [st[p] EXCEPT !.pc = "failed", !.err = e]

\* the slots are taken in order
Free(p) == st[p].pc = "idle" /\ (IF p = 1 THEN TRUE ELSE st[p - 1].pc # "idle")

\* mutant: the ledger call is made first
FirstAwait_Ledger(kind) == "ledger"

\* the first await of the call: buyOrder updates the reserve, sellOrder reads it
FirstAwait(kind) == IF kind = "buy" THEN "update" ELSE "read"

Enter(kind, req, ev, dl) ==
    LET call == [Idle EXCEPT !.kind = kind, !.req = req, !.ev = ev, !.dl = dl,
                             !.rounded = RoundedAssetAmount(req)]
    IN  IF InvalidInput(req)
        THEN [call EXCEPT !.pc = "failed", !.err = "InvalidRequest"]
        ELSE [call EXCEPT !.pc = FirstAwait(kind)]

\* buyOrder up to its first await (updateAssetReserve)
BuyOrder(p, req) ==
    /\ Free(p)
    /\ st' = [st EXCEPT ![p] = Enter("buy", req, 0, 0)]
    /\ UNCHANGED <<reserve, chain, reserve0, ingest, custody>>

\* sellOrder up to its first await (getAssetReserve)
SellOrder(p, req) ==
    /\ Free(p)
    /\ st' = [st EXCEPT ![p] = Enter("sell", req, 0, 0)]
    /\ UNCHANGED <<reserve, chain, reserve0, ingest, custody>>

\* mutant: a missing record is read as a reserve of zero
SellCheck_NoFoundCheck(call, cur) ==
    IF cur.reserve_amount < call.rounded THEN "InsufficientReserve" ELSE ""

\* sellOrder: getAssetReserve returns, the sufficiency check
SellCheck(call, cur) ==
    IF ~cur.found THEN "ReserveNotFound"
    ELSE IF cur.reserve_amount < call.rounded THEN "InsufficientReserve"
    ELSE ""

GetAssetReserve(p) ==
    /\ st[p].pc = "read"
    /\ LET cur == getAssetReserve(st[p].req.assetSymbol)
           e == SellCheck(st[p], cur)
       IN  st' = [st EXCEPT ![p] =
                    IF e # "" THEN Fail(p, e)
                    ELSE [st[p] EXCEPT !.pc = "update", !.cur = cur]]
    /\ UNCHANGED <<reserve, chain, reserve0, ingest, custody>>

\* mutant: sellOrder hands the amount over without negating it
ReserveDelta_NotNegated(call) == call.rounded

\* the delta buyOrder / sellOrder hands to updateAssetReserve
ReserveDelta(call) == IF call.kind = "buy" THEN call.rounded ELSE -call.rounded

\* mutant: a failure of updateAssetReserve is swallowed
AfterUpdate_Swallow(ok) == "ledger"

\* where the call goes when updateAssetReserve has returned or thrown
AfterUpdate(ok) == IF ok THEN "ledger" ELSE "failed"

\* updateAssetReserve returns or throws
UpdateAssetReserve(p, create) ==
    /\ st[p].pc = "update"
    /\ LET sym == st[p].req.assetSymbol
           r == updateAssetReserve(sym, ReserveDelta(st[p]), create)
       IN  /\ reserve' = IF r.ok THEN [reserve EXCEPT ![sym] = r.rec] ELSE reserve
           /\ st' = [st EXCEPT ![p] =
                    IF AfterUpdate(r.ok) = "failed" THEN Fail(p, r.err)
                    ELSE [st[p] EXCEPT !.pc = AfterUpdate(r.ok), !.upd = r.rec,
                            !.applied = r.ok,
                            !.delta = IF r.ok THEN ReserveDelta(st[p]) ELSE 0]]
    /\ UNCHANGED <<chain, reserve0, ingest, custody>>

\* the value buyOrder returns
BuyResponse(call) ==
    [success |-> TRUE, assetSymbol |-> call.req.assetSymbol,
     amount |-> call.req.usdcAmount, tokenMinted |-> call.rounded,
     newTokenReserve |-> call.upd.reserve_amount]

\* the value sellOrder returns
SellResponse(call) ==
    [success |-> TRUE, assetSymbol |-> call.req.assetSymbol,
     amount |-> call.req.usdcAmount, tokenBurned |-> call.rounded,
     newTokenReserve |-> call.upd.reserve_amount]

\* the token call returned the transaction hash: the order call returns
Finish(p, txAmount) ==
    [st[p] EXCEPT !.pc = "done", !.txHash = p, !.txAmount = txAmount,
                  !.ledgerCalled = TRUE,
                  !.result = IF st[p].kind = "buy" THEN BuyResponse(st[p])
                             ELSE IF st[p].kind = "sell" THEN SellResponse(st[p])
                             ELSE @]

\* mutant: the failure of the token call is swallowed
LedgerFail_Swallowed(p, e) == [st[p] EXCEPT !.pc = "done", !.ledgerCalled = TRUE]

\* the token call threw: catch, log, throw error
LedgerFail(p, e) == [st[p] EXCEPT !.pc = "failed", !.err = e, !.ledgerCalled = TRUE]

\* the amount argument of the token call in smallest units: an order hands
\* over roundedAssetAmount, a direct call the amount amtN / amtD
LedgerUnits(call) ==
    IF call.kind \in {"buy", "sell"} THEN TokenUnits(call.rounded)
    ELSE Truncate(call.req.amtN, call.req.amtD)

\* the call after mintTokens / burnTokens has returned or thrown; gas is the
\* estimate the node gave, if it was asked, and registryOk tells whether the
\* registry answered the isVerified query, if it was made
AfterLedger(p, e, amount, registryOk, gas) ==
    LET calls == ChainCalls(st[p].kind, e, amount)
        estimated == e = "" \/ (e = "ChainCallFailed" /\ amount >= 0)
    IN  [(IF e # "" THEN LedgerFail(p, e) ELSE Finish(p, amount)) EXCEPT
            !.estimates = @ + GasEstimates(e),
            !.submits = @ + Submissions(e, amount),
            !.calls = calls,
            !.session = IF Len(calls) >= 2 THEN LedgerSession ELSE NoSession,
            !.gasEstimate = IF estimated THEN gas ELSE 0,
            !.gasLimit = IF estimated THEN GasLimit(gas) ELSE 0,
            !.registry = IF Len(calls) = 0 THEN ""
                         ELSE IF registryOk THEN "answered" ELSE "failed"]

\* mintTokens returns the transaction hash or throws
MintTokens(p, registryOk, rpcOk, gas) ==
    /\ st[p].pc = "ledger" /\ st[p].kind \in {"buy", "mint"}
    /\ LET req == st[p].req
           amount == LedgerUnits(st[p])
           e == MintFailure(req.user, req.token, amount, registryOk, rpcOk)
       IN  /\ st' = [st EXCEPT ![p] = AfterLedger(p, e, amount, registryOk, gas)]
           /\ balance' = IF e # "" THEN balance
                         ELSE [balance EXCEPT ![req.user] = @ + amount]
    /\ UNCHANGED <<reserve, verified, isAgent, decimals, reserve0, ingest,
                   custody>>

\* burnTokens returns the transaction hash or throws
BurnTokens(p, registryOk, rpcOk, gas) ==
    /\ st[p].pc = "ledger" /\ st[p].kind \in {"sell", "burn"}
    /\ LET req == st[p].req
           amount == LedgerUnits(st[p])
           e == BurnFailure(req.user, req.token, amount, registryOk, rpcOk)
       IN  /\ st' = [st EXCEPT ![p] = AfterLedger(p, e, amount, registryOk, gas)]
           /\ balance' = IF e # "" THEN balance
                         ELSE [balance EXCEPT ![req.user] = @ - amount]
    /\ UNCHANGED <<reserve, verified, isAgent, decimals, reserve0, ingest,
                   custody>>

\* the gas estimates of the node
GasQuotes == {21001, 50000}
OneQuote == {50000}

\* the arguments of the direct calls: (userAddress, tokenAddress, amount as
\* numerator and denominator); alice holds 5.00 at the start, bob is not
\* verified
TokenCallInputs ==
    {<<"alice", Token, 200, 100>>, <<"alice", Token, 251, 100>>,
     <<"alice", Token, 500, 100>>,
     <<"alice", Token, 501, 100>>, <<"alice", Token, 1005, 1000>>,
     <<"alice", Token, 0, 100>>, <<"alice", Token, -100, 100>>,
     <<"bob", Token, 200, 100>>, <<"", Token, 200, 100>>,
     <<"alice", "", 200, 100>>}

TokenCall(kind, in) ==
    [Idle EXCEPT !.kind = kind, !.pc = "ledger",
                 !.req = OrderRequest(in[1], in[2], "", 0, in[3], in[4])]

\* TokenService.mintTokens is called
CallMintTokens(p, in) ==
    /\ Free(p)
    /\ st' = [st EXCEPT ![p] = TokenCall("mint", in)]
    /\ UNCHANGED <<reserve, chain, reserve0, ingest, custody>>

\* TokenService.burnTokens is called
CallBurnTokens(p, in) ==
    /\ Free(p)
    /\ st' = [st EXCEPT ![p] = TokenCall("burn", in)]
    /\ UNCHANGED <<reserve, chain, reserve0, ingest, custody>>

\* the token contract at the token address is re-configured or redeployed:
\* from now on decimals() and isAgent(signer) answer d and a
Reconfigure(d, a) ==
    /\ <<d, a>> # <<decimals, isAgent>>
    /\ decimals' = d
    /\ isAgent' = a
    /\ UNCHANGED <<reserve, st, verified, balance, reserve0, ingest, custody>>

(***************************************************************************)
(* TokenService.withdrawUSDC, one action per await, and the account of the *)
(* operating signer on the node: the number of its mined transactions and  *)
(* its transactions waiting in the pool.  The node mines the transactions  *)
(* of an account in nonce order, without gaps.                             *)
(***************************************************************************)
Withdrawals == 1..MaxWithdrawals

\* amount in USDC and userAddress of the withdrawUSDC calls
WithdrawInputs == {<<5, "alice">>, <<-1, "alice">>, <<5, "">>}

NoWithdrawal ==
    [pc |-> "idle", user |-> "", amount |-> 0, units |-> 0, currentNonce |-> 0,
     nonce |-> 0, gasLimit |-> 0, err |-> "", txHash |-> 0]

Withdrawal(w) == withdrawals[w]

\* catch: throw new Error(`Failed to withdraw USDC: ...`)
WithdrawFail(w, e) == [Withdrawal(w) EXCEPT !.pc = "failed", !.err = e]

\* const nextNonce = currentNonce + 1
NextNonce(currentNonce) == currentNonce + 1

\* withdrawUSDC up to its first await: the address check and the amount in
\* units of 10^-6 USDC
WithdrawUSDC(w, amount, user) ==
    /\ Withdrawal(w).pc = "idle"
    /\ IF w = 1 THEN TRUE ELSE Withdrawal(w - 1).pc # "idle"
    /\ LET call == [NoWithdrawal EXCEPT !.user = user, !.amount = amount]
       IN  withdrawals' = [withdrawals EXCEPT ![w] =
                IF ~IsAddress(user)
                THEN [call EXCEPT !.pc = "failed", !.err = "InvalidAddress"]
                ELSE [call EXCEPT !.pc = "nonce", !.units = amount * Pow10(6)]]
    /\ UNCHANGED <<reserve, st, chain, reserve0, ingest, signer>>

\* getTransactionCount(agentSigner.address, 'latest') returns the number of
\* mined transactions, or the call fails
GetTransactionCount(w, rpcOk) ==
    /\ Withdrawal(w).pc = "nonce"
    /\ withdrawals' = [withdrawals EXCEPT ![w] =
            IF ~rpcOk THEN WithdrawFail(w, "ChainCallFailed")
            ELSE [@ EXCEPT !.pc = "estimate", !.currentNonce = signer.count,
                           !.nonce = NextNonce(signer.count)]]
    /\ UNCHANGED <<reserve, st, chain, reserve0, ingest, signer>>

\* estimateGas returns or throws (a negative amount cannot be encoded)
EstimateWithdrawal(w, rpcOk, gas) ==
    /\ Withdrawal(w).pc = "estimate"
    /\ withdrawals' = [withdrawals EXCEPT ![w] =
            IF ~rpcOk \/ Withdrawal(w).units < 0
            THEN WithdrawFail(w, "ChainCallFailed")
            ELSE [@ EXCEPT !.pc = "submit", !.gasLimit = GasLimit(gas)]]
    /\ UNCHANGED <<reserve, st, chain, reserve0, ingest, signer>>

\* the node takes a transaction into the pool unless its nonce is below the
\* account's transaction count or taken by a transaction in the pool
Accepts(nonce) ==
    nonce >= signer.count /\ \A t \in signer.pool : t.nonce # nonce

\* orderContract.withdrawUSDC(usdcAmount, userAddress, {gasLimit, nonce})
\* returns the transaction or throws
SubmitWithdrawal(w, rpcOk) ==
    /\ Withdrawal(w).pc = "submit"
    /\ IF rpcOk /\ Accepts(Withdrawal(w).nonce)
       THEN /\ withdrawals' = [withdrawals EXCEPT ![w].pc = "wait", ![w].txHash = w]
            /\ signer' = [signer EXCEPT
                    !.pool = @ \cup {[nonce |-> Withdrawal(w).nonce, by |-> w]}]
       ELSE /\ withdrawals' = [withdrawals EXCEPT ![w] =
                                    WithdrawFail(w, "ChainCallFailed")]
            /\ UNCHANGED signer
    /\ UNCHANGED <<reserve, st, chain, reserve0, ingest>>

\* the node mines the transaction of the pool whose nonce is the account's
\* transaction count
Mine ==
    /\ \E t \in signer.pool :
        /\ t.nonce = signer.count
        /\ signer' = [signer EXCEPT !.count = @ + 1, !.pool = @ \ {t}]
    /\ UNCHANGED <<reserve, st, chain, reserve0, ingest, withdrawals>>

\* `await tx.wait()` returns once the transaction is mined, and throws when
\* it was reverted
Confirm(w, ok) ==
    /\ Withdrawal(w).pc = "wait"
    /\ \A t \in signer.pool : t.by # w
    /\ withdrawals' = [withdrawals EXCEPT ![w] =
            IF ok THEN [@ EXCEPT !.pc = "done"]
            ELSE WithdrawFail(w, "ChainCallFailed")]
    /\ UNCHANGED <<reserve, st, chain, reserve0, ingest, signer>>

RECURSIVE PendingCount(_)
\* getTransactionCount(address, 'pending') when n transactions are mined
PendingCount(n) ==
    IF \E t \in signer.pool : t.nonce = n THEN PendingCount(n + 1) ELSE n

\* another transaction of the signer, as mintTokens and burnTokens submit
\* it: without a nonce of their own, the wallet fills in the pending count
SubmitOther ==
    /\ signer.others < MaxOtherTxs
    /\ signer' = [signer EXCEPT
            !.pool = @ \cup {[nonce |-> PendingCount(signer.count), by |-> 0]},
            !.others = @ + 1]
    /\ UNCHANGED <<reserve, st, chain, reserve0, ingest, withdrawals>>

(***************************************************************************)
(* EventListenerService.                                                   *)
(***************************************************************************)
EventKinds == {"BuyOrderCreated", "SellOrderCreated"}

\* the events of the order contract: (user, ticker, token, usdcAmount,
\* assetAmount, price) as emitted, price scaled by 10^2
EventLog ==
    << [kind |-> "BuyOrderCreated", user |-> "alice", ticker |-> "AAPL",
        token |-> Token, usdcAmount |-> 10000, assetAmount |-> 7, price |-> 150],
       [kind |-> "SellOrderCreated", user |-> "alice", ticker |-> "AAPL",
        token |-> Token, usdcAmount |-> 4, assetAmount |-> 3, price |-> 150] >>
Events == 1..Len(EventLog)

\* the BuyOrderCreated handler's orderRequest: usdcAmount as emitted,
\* assetAmount = usdcAmountDecimal / (price / 1e2)
BuyEventRequest(e) ==
    OrderRequest(e.user, e.token, e.ticker, e.usdcAmount, e.usdcAmount * 100, e.price)

\* the SellOrderCreated handler's orderRequest: usdcAmount and assetAmount are
\* both computed from the event's assetAmount field
SellEventRequest(e) ==
    OrderRequest(e.user, e.token, e.ticker, e.assetAmount, e.assetAmount * 100, e.price)

\* onModuleInit up to `await this.wssProvider.ready` in subscribeToEvents
OnModuleInit ==
    /\ ~started
    /\ started' = TRUE
    /\ subs' = subs \cup {[provider |-> wssProvider, reconnect |-> FALSE]}
    /\ UNCHANGED <<reserve, st, chain, reserve0, wssProvider, providers, provOpen,
                   orderContract, contracts, delivered, lastProbe, shutdowns,
                   custody>>

\* subscribeToEvents after `ready` has resolved: a new Contract on the provider
\* that this.wssProvider names now, with both listeners
SubscribeToEvents(t) ==
    /\ t \in subs
    /\ subs' = subs \ {t}
    /\ contracts' = Append(contracts,
                        [provider |-> wssProvider, listeners |-> EventKinds])
    /\ orderContract' = Len(contracts) + 1
    /\ UNCHANGED <<reserve, st, chain, reserve0, started, wssProvider, providers,
                   provOpen, delivered, lastProbe, shutdowns, custody>>

\* `ready` rejects: the reconnect logs the error, onModuleInit throws
SubscribeFails(t) ==
    /\ t \in subs
    /\ subs' = subs \ {t}
    /\ UNCHANGED <<reserve, st, chain, reserve0, started, wssProvider, providers,
                   provOpen, orderContract, contracts, delivered, lastProbe,
                   shutdowns, custody>>

\* mutant: a probe that returns no block number is taken as healthy
ProbeFails_TimeoutOnly(outcome) == outcome = "timeout"

\* mutant: every tick is taken as a failed probe
ProbeFails_Always(outcome) == TRUE

\* the probe of checkLatestBlock fails: the race rejects (the 10 s timeout)
\* or `!blockNumber`
ProbeFails(outcome) == outcome # "block"

\* checkLatestBlock; a probe that times out or returns no block number calls
\* destroyConnectionAndSubscribeAgain, which runs up to `await ready`:
\* removeAllListeners throws while orderContract is unset; else the listeners
\* are removed, the provider destroyed, a new one created and awaited
CheckLatestBlock(outcome) ==
    /\ started
    /\ lastProbe' = [outcome |-> outcome, provider |-> wssProvider,
                     reconnect |-> ProbeFails(outcome)]
    /\ IF ~ProbeFails(outcome) \/ orderContract = 0
       THEN UNCHANGED <<wssProvider, providers, provOpen, contracts, subs>>
       ELSE /\ providers < MaxReconnects
            /\ contracts' = [contracts EXCEPT ![orderContract].listeners = {}]
            /\ provOpen' = (provOpen \ {wssProvider}) \cup {providers + 1}
            /\ providers' = providers + 1
            /\ wssProvider' = providers + 1
            /\ subs' = subs \cup {[provider |-> providers + 1, reconnect |-> TRUE]}
    /\ UNCHANGED <<reserve, st, chain, reserve0, started, orderContract, delivered,
                   shutdowns, custody>>

\* onModuleDestroy: removeAllListeners throws while orderContract is unset
\* and the error is caught and logged; else the listeners of orderContract
\* are removed and the provider is destroyed
OnModuleDestroy ==
    /\ started
    /\ shutdowns < MaxShutdowns
    /\ shutdowns' = shutdowns + 1
    /\ IF orderContract = 0
       THEN UNCHANGED <<provOpen, contracts>>
       ELSE /\ contracts' = [contracts EXCEPT ![orderContract].listeners = {}]
            /\ provOpen' = provOpen \ {wssProvider}
    /\ UNCHANGED <<reserve, st, chain, reserve0, started, wssProvider, providers,
                   orderContract, subs, delivered, lastProbe, custody>>

\* mutant: a failed settlement of an event takes the listeners down
Handlers_UntilFailure(kind) ==
    {i \in 1..Len(contracts) :
        /\ kind \in contracts[i].listeners /\ contracts[i].provider \in provOpen
        /\ \A p \in Procs : ~(st[p].ev # 0 /\ st[p].pc = "failed")}

\* the contracts whose listener the provider calls for an event of this kind
Handlers(kind) ==
    {i \in 1..Len(contracts) :
        kind \in contracts[i].listeners /\ contracts[i].provider \in provOpen}

Busy == Cardinality({p \in Procs : st[p].pc # "idle"})

\* history: the settlements of events that have failed so far
FailedEventCalls == Cardinality({p \in Procs : st[p].ev # 0 /\ st[p].pc = "failed"})

\* the chain delivers event ev: every registered handler builds its
\* orderRequest and calls buyOrder / sellOrder
DeliverEvent(ev) ==
    LET e == EventLog[ev]
        k == Cardinality(Handlers(e.kind))
        new == IF e.kind = "BuyOrderCreated"
               THEN Enter("buy", BuyEventRequest(e), ev, delivered[ev] + 1)
               ELSE Enter("sell", SellEventRequest(e), ev, delivered[ev] + 1)
        call == [new EXCEPT !.after = FailedEventCalls]
    IN  /\ delivered[ev] < MaxDeliveries
        /\ Busy + k <= MaxEventCalls
        /\ delivered' = [delivered EXCEPT ![ev] = @ + 1]
        /\ st' = [p \in Procs |-> IF Busy < p /\ p <= Busy + k THEN call ELSE st[p]]
        /\ UNCHANGED <<reserve, chain, reserve0, started, wssProvider, providers,
                       provOpen, orderContract, contracts, subs, lastProbe,
                       shutdowns, custody>>

(***************************************************************************)
(* Specifications.                                                         *)
(***************************************************************************)
InitChain ==
    /\ verified = {"alice"}
    /\ isAgent \in BOOLEAN
    /\ decimals \in Decimals
    \* the supply equals the reserve: alice holds every token
    /\ balance = [u \in Users |->
                    IF u = "alice"
                    THEN (reserve["AAPL"].reserve_amount * Pow10(decimals)) \div 100
                    ELSE 0]

InitStore ==
    /\ \E r \in InitReserves :
        reserve = [s \in AssetSymbols |->
                    IF s = "AAPL" THEN ReserveRecord(r) ELSE NoRecord]
    /\ reserve0 = reserve
    /\ st = [p \in Procs |-> Idle]

\* the listener after construction
InitListener ==
    /\ started = FALSE
    /\ wssProvider = 0
    /\ providers = 0
    /\ provOpen = {0}
    /\ orderContract = 0
    /\ contracts = << >>
    /\ subs = {}
    /\ delivered = [e \in Events |-> 0]
    /\ lastProbe = [outcome |-> "", provider |-> 0, reconnect |-> FALSE]
    /\ shutdowns = 0

\* the signer's account (count of mined transactions, pool, and, as history,
\* the other transactions submitted) and the withdrawals after construction
InitCustody ==
    /\ signer = [count |-> 0, pool |-> {}, others |-> 0]
    /\ withdrawals = [w \in Withdrawals |-> NoWithdrawal]

Init == InitStore /\ InitChain /\ InitListener /\ InitCustody

\* the settlement coordinator under the synchronous buy / sell entry points
NextOrders ==
    \/ \E p \in 1..MaxOrders, req \in Requests : BuyOrder(p, req)
    \/ \E p \in 1..MaxOrders, req \in Requests : SellOrder(p, req)
    \/ \E p \in Procs : GetAssetReserve(p)
    \/ \E p \in Procs, create \in BOOLEAN : UpdateAssetReserve(p, create)
    \/ \E p \in Procs, rpcOk \in BOOLEAN, gas \in OneQuote : MintTokens(p, TRUE, rpcOk, gas)
    \/ \E p \in Procs, rpcOk \in BOOLEAN, gas \in OneQuote : BurnTokens(p, TRUE, rpcOk, gas)

SpecOrders == Init /\ [][NextOrders]_vars

\* concurrent sells of one asset
SellRequests == {OrderRequest("alice", Token, "AAPL", 100, a, 1000) : a \in {2000, 3000}}

NextSells ==
    \/ \E p \in 1..MaxSells, req \in SellRequests : SellOrder(p, req)
    \/ \E p \in Procs : GetAssetReserve(p)
    \/ \E p \in Procs : UpdateAssetReserve(p, FALSE)
    \/ \E p \in Procs, rpcOk \in BOOLEAN, gas \in OneQuote : BurnTokens(p, TRUE, rpcOk, gas)

SpecSells == Init /\ [][NextSells]_vars

\* the token ledger adapter under direct calls
NextToken ==
    \/ \E p \in 1..MaxTokenCalls, in \in TokenCallInputs : CallMintTokens(p, in)
    \/ \E p \in 1..MaxTokenCalls, in \in TokenCallInputs : CallBurnTokens(p, in)
    \/ \E p \in Procs, rpcOk \in BOOLEAN, gas \in GasQuotes : MintTokens(p, TRUE, rpcOk, gas)
    \/ \E p \in Procs, rpcOk \in BOOLEAN, gas \in GasQuotes : BurnTokens(p, TRUE, rpcOk, gas)

SpecToken == Init /\ [][NextToken]_vars

\* direct calls on a token contract that is re-configured between them
SessionInputs == {<<"alice", Token, 200, 100>>, <<"alice", Token, 1005, 1000>>}

NextSession ==
    \/ \E p \in 1..MaxTokenCalls, in \in SessionInputs : CallMintTokens(p, in)
    \/ \E p \in 1..MaxTokenCalls, in \in SessionInputs : CallBurnTokens(p, in)
    \/ \E p \in Procs, rpcOk \in BOOLEAN, gas \in OneQuote : MintTokens(p, TRUE, rpcOk, gas)
    \/ \E p \in Procs, rpcOk \in BOOLEAN, gas \in OneQuote : BurnTokens(p, TRUE, rpcOk, gas)
    \/ \E d \in Decimals, a \in BOOLEAN : Reconfigure(d, a)

SpecSession == Init /\ [][NextSession]_vars

\* direct calls while the identity registry answers or fails
IdentityInputs ==
    {<<"alice", Token, 200, 100>>, <<"alice", Token, 501, 100>>,
     <<"bob", Token, 200, 100>>}

NextIdentity ==
    \/ \E p \in 1..MaxTokenCalls, in \in IdentityInputs : CallMintTokens(p, in)
    \/ \E p \in 1..MaxTokenCalls, in \in IdentityInputs : CallBurnTokens(p, in)
    \/ \E p \in Procs, registryOk \in BOOLEAN, rpcOk \in BOOLEAN, gas \in OneQuote :
            MintTokens(p, registryOk, rpcOk, gas)
    \/ \E p \in Procs, registryOk \in BOOLEAN, rpcOk \in BOOLEAN, gas \in OneQuote :
            BurnTokens(p, registryOk, rpcOk, gas)

SpecIdentity == Init /\ [][NextIdentity]_vars

\* withdrawals beside the other transactions of the signer
NextWithdraw ==
    \/ \E w \in Withdrawals, in \in WithdrawInputs : WithdrawUSDC(w, in[1], in[2])
    \/ \E w \in Withdrawals, rpcOk \in BOOLEAN : GetTransactionCount(w, rpcOk)
    \/ \E w \in Withdrawals, rpcOk \in BOOLEAN, gas \in OneQuote :
            EstimateWithdrawal(w, rpcOk, gas)
    \/ \E w \in Withdrawals, rpcOk \in BOOLEAN : SubmitWithdrawal(w, rpcOk)
    \/ \E w \in Withdrawals, ok \in BOOLEAN : Confirm(w, ok)
    \/ Mine
    \/ SubmitOther

InitWithdraw == Init /\ isAgent /\ decimals = 2

SpecWithdraw == InitWithdraw /\ [][NextWithdraw]_vars

\* the event listener with the settlements its handlers start
NextListener ==
    \/ OnModuleInit
    \/ \E t \in subs : SubscribeToEvents(t)
    \/ \E t \in subs : SubscribeFails(t)
    \/ \E outcome \in {"block", "none", "timeout"} : CheckLatestBlock(outcome)
    \/ \E ev \in Events : DeliverEvent(ev)
    \/ \E p \in Procs : GetAssetReserve(p)
    \/ \E p \in Procs, create \in BOOLEAN : UpdateAssetReserve(p, create)
    \/ \E p \in Procs, rpcOk \in BOOLEAN, gas \in OneQuote : MintTokens(p, TRUE, rpcOk, gas)
    \/ \E p \in Procs, rpcOk \in BOOLEAN, gas \in OneQuote : BurnTokens(p, TRUE, rpcOk, gas)

\* the listener is followed on one deployment of the token and the store
InitListenerSpec == Init /\ isAgent /\ decimals = 2

SpecListener == InitListenerSpec /\ [][NextListener]_vars

\* the connection of the listener: subscription, probe, reconnect, shutdown
NextProbe ==
    \/ OnModuleInit
    \/ \E t \in subs : SubscribeToEvents(t)
    \/ \E t \in subs : SubscribeFails(t)
    \/ \E outcome \in {"block", "none", "timeout"} : CheckLatestBlock(outcome)
    \/ OnModuleDestroy

SpecProbe == InitListenerSpec /\ [][NextProbe]_vars

\* the same under the scheduling of the service: onModuleInit is called,
\* an awaited `ready` settles, and the cron keeps calling checkLatestBlock.
\* A tick that repeats the last probe without effect is a stuttering step,
\* so the fairness of the ticks is stated for the tick whose probe returns a
\* block number
SpecProbeFair ==
    /\ InitListenerSpec /\ [][NextProbe]_vars
    /\ WF_vars(OnModuleInit)
    /\ WF_vars(\E t \in subs : SubscribeToEvents(t) \/ SubscribeFails(t))
    /\ WF_vars(CheckLatestBlock("block"))

\* the handlers of one subscription with the settlements they start
NextHandlers ==
    \/ OnModuleInit
    \/ \E t \in subs : SubscribeToEvents(t)
    \/ \E ev \in Events : DeliverEvent(ev)
    \/ \E p \in Procs : GetAssetReserve(p)
    \/ \E p \in Procs, create \in BOOLEAN : UpdateAssetReserve(p, create)
    \/ \E p \in Procs, rpcOk \in BOOLEAN, gas \in OneQuote : MintTokens(p, TRUE, rpcOk, gas)
    \/ \E p \in Procs, rpcOk \in BOOLEAN, gas \in OneQuote : BurnTokens(p, TRUE, rpcOk, gas)

SpecHandlers == InitListenerSpec /\ [][NextHandlers]_vars

(***************************************************************************)
(* Properties.                                                             *)
(***************************************************************************)
\* h (in hundredths) is the request's asset amount rounded half up to two
\* decimal places: h - 1/2 <= 100 * amtN / amtD < h + 1/2
IsRounded2(req, h) ==
    LET x == 2 * (100 * req.amtN - h * req.amtD)
    IN  -req.amtD <= x /\ x < req.amtD

\* h (in hundredths) is exactly the request's asset amount
IsExact(req, h) == h * req.amtD = 100 * req.amtN

Amount(rec) == IF rec.found THEN rec.reserve_amount ELSE 0
OthersUnchanged(sym) == \A s \in AssetSymbols \ {sym} : reserve'[s] = reserve[s]

\* a step of sellOrder p before its burn call
SellStep(p) ==
    st[p].kind = "sell" /\ st[p].pc \in {"read", "update"} /\ st'[p] # st[p]

\* a step of buyOrder p before its mint call
BuyStep(p) == st[p].kind = "buy" /\ st[p].pc = "update" /\ st'[p] # st[p]

SellOutcome(p, Same(_, _), errors) ==
    LET sym == st[p].req.assetSymbol
    IN  \/ /\ st'[p].pc = "ledger"
           /\ reserve[sym].found /\ reserve'[sym].found
           /\ Same(st[p].req, reserve[sym].reserve_amount - reserve'[sym].reserve_amount)
           /\ reserve'[sym].reserve_amount >= 0
           /\ OthersUnchanged(sym)
        \/ st'[p].pc = "update" /\ reserve' = reserve
        \/ st'[p].pc = "failed" /\ st'[p].err \in errors /\ reserve' = reserve

Racing(v) ==
    {p \in Procs :
        /\ st[p].kind = "sell" /\ st[p].req.assetSymbol = "AAPL"
        /\ st[p].cur.found /\ st[p].cur.reserve_amount = v}

Raced(v) ==
    /\ Cardinality(Racing(v)) >= 2
    /\ \A p \in Racing(v) : st[p].pc \in {"ledger", "done", "failed"}
    /\ SumOver([p \in Procs |-> st[p].rounded], Racing(v)) > v

Applied(S) == {p \in S : st[p].applied}
Refused(S) == {p \in S : ~st[p].applied /\ st[p].err = "InsufficientReserve"}

\* the amounts the sells read
ReadAmounts == {st[p].cur.reserve_amount : p \in {q \in Procs : st[q].cur.found}}

\* no other settlement changed the reserve after the racing sells read it
\* (the reserve only falls here, so an earlier update left at least v)
Alone(v) ==
    \A q \in Procs \ Racing(v) : st[q].applied => st[q].upd.reserve_amount >= v

C3_ReserveNonNegative ==
    \A s \in AssetSymbols : reserve[s].found => reserve[s].reserve_amount >= 0

\* a sell passed sellOrder's own check against a reserve another sell then
\* lowered, and the store refused its delta
C3_Witness ==
    /\ \E p \in Procs :
        /\ st[p].kind = "sell" /\ st[p].cur.found
        /\ st[p].err = "InsufficientReserve" /\ ~st[p].applied
    /\ reserve["AAPL"].reserve_amount < 251

BuyOutcome(p, Same(_, _)) ==
    LET sym == st[p].req.assetSymbol
    IN  IF st'[p].pc = "ledger"
        THEN /\ reserve'[sym].found
             /\ Same(st[p].req, reserve'[sym].reserve_amount - Amount(reserve[sym]))
             /\ OthersUnchanged(sym)
        ELSE reserve' = reserve

InitialAmount(sym) == Amount(reserve0[sym])

\* a buy and a sell of the same amount on the same asset are the only calls
\* that changed the reserve
RoundTrip(p, q) ==
    /\ st[p].kind = "buy" /\ st[p].applied
    /\ st[q].kind = "sell" /\ st[q].applied
    /\ st[p].req.assetSymbol = st[q].req.assetSymbol
    /\ st[p].req.amtN = st[q].req.amtN /\ st[p].req.amtD = st[q].req.amtD
    /\ \A r \in Procs \ {p, q} : ~st[r].applied

C4_RoundTripRestores ==
    \A p, q \in Procs : RoundTrip(p, q) =>
        Amount(reserve[st[p].req.assetSymbol]) = InitialAmount(st[p].req.assetSymbol)

C5_UnverifiedBuyLeavesReserve ==
    \A p \in Procs :
        (st[p].kind = "buy" /\ st[p].rounded > 0 /\ st[p].err = "IdentityNotVerified") =>
            /\ ~st[p].applied
            /\ st[p].txHash = 0
            /\ (\A q \in Procs \ {p} : ~st[q].applied) =>
                    \A s \in AssetSymbols : Amount(reserve[s]) = InitialAmount(s)

\* a step of call p
Step(p) == st'[p] # st[p]

\* C11: a buy or sell request whose asset symbol is empty or whose fiat amount
\* is <= 0 fails with InvalidRequest when it is entered, and that is the only
\* step the call ever takes: it reads and changes no reserve and makes no
\* token call.
C11_InvalidRequestRejected ==
    [][\A p \in Procs :
        (Step(p) /\ (st'[p].req.assetSymbol = "" \/ st'[p].req.usdcAmount <= 0)) =>
            /\ st[p].pc = "idle"
            /\ st'[p].pc = "failed" /\ st'[p].err = "InvalidRequest"
            /\ ~st'[p].applied /\ ~st'[p].cur.found /\ ~st'[p].ledgerCalled
            /\ st'[p].estimates = 0 /\ st'[p].submits = 0
            /\ reserve' = reserve /\ balance' = balance]_vars

\* a buy with fiat amount 0 and a sell with an empty symbol were rejected
C11_Witness ==
    \E p, q \in Procs :
        /\ st[p].kind = "buy" /\ st[p].req.usdcAmount = 0
        /\ st[p].req.assetSymbol # "" /\ st[p].err = "InvalidRequest"
        /\ st[q].kind = "sell" /\ st[q].req.assetSymbol = ""
        /\ st[q].err = "InvalidRequest"

\* the step in which the token call of settlement p returns or throws
LedgerStep(p) == st[p].pc = "ledger" /\ Step(p)

InitialTotal == SumOver([s \in AssetSymbols |-> InitialAmount(s)], AssetSymbols)

\* C12: when the token call of a settlement whose reserve update succeeded
\* fails, the settlement fails with that error and the reserve keeps the
\* adjusted value: it is always the initial reserve plus every applied delta,
\* those of the settlements whose token call failed included.
C12_NoCompensation ==
    /\ [][\A p \in Procs : LedgerStep(p) =>
            \/ st'[p].pc = "done" /\ st'[p].txHash # 0
            \/ /\ st'[p].pc = "failed" /\ st'[p].err # ""
               /\ st'[p].txHash = 0 /\ st'[p].applied
               /\ reserve' = reserve]_vars
    /\ [](SumOver([s \in AssetSymbols |-> Amount(reserve[s])], AssetSymbols)
            = InitialTotal
              + SumOver([p \in Procs |-> IF st[p].applied THEN st[p].delta ELSE 0],
                        Procs))

\* a mint failed after the reserve was raised and the reserve stays raised
C12_Witness ==
    \E p \in Procs :
        /\ st[p].kind = "buy" /\ st[p].pc = "failed" /\ st[p].ledgerCalled
        /\ st[p].applied /\ st[p].delta = 200
        /\ \A q \in Procs \ {p} : ~st[q].applied
        /\ Amount(reserve["AAPL"]) = InitialAmount("AAPL") + 200

\* the transaction reference a result carries, 0 when it carries none
TxReferenceOf(result) == IF "txHash" \in DOMAIN result THEN result.txHash ELSE 0

\* C13 (as claimed): the result of a successful buy carries the reserve total
\* its reserve update returned and the transaction reference of its mint.
C13_BuyResultCarriesReserveAndTx ==
    \A p \in Procs : (st[p].kind = "buy" /\ st[p].pc = "done") =>
        /\ st[p].result.success
        /\ st[p].result.newTokenReserve = st[p].upd.reserve_amount
        /\ TxReferenceOf(st[p].result) = st[p].txHash

\* C14: a settlement makes at most one token call, and the token call submits
\* at most one transaction, whether the submission is accepted or rejected;
\* a settlement that has returned or thrown takes no further step.
C14_NoRetry ==
    /\ [](\A p \in Procs : st[p].submits <= 1 /\ st[p].estimates <= 1)
    /\ [][\A p \in Procs :
            /\ (st[p].pc \in {"done", "failed"}) => ~Step(p)
            /\ LedgerStep(p) => st'[p].pc \in {"done", "failed"}]_vars

\* one submission was rejected and one accepted
C14_Witness ==
    \E p, q \in Procs :
        /\ st[p].pc = "failed" /\ st[p].err = "ChainCallFailed" /\ st[p].submits = 1
        /\ st[q].pc = "done" /\ st[q].submits = 1

\* C9: a mint or burn call is begun only by a settlement whose reserve update
\* has completed successfully.
C9_ReserveBeforeLedger ==
    \A p \in Procs :
        (st[p].pc = "ledger" \/ st[p].ledgerCalled) =>
            st[p].applied /\ st[p].upd.found

\* one settlement was stopped by a failed reserve update, another reached
\* its token call
C9_Witness ==
    \E p, q \in Procs :
        /\ st[p].pc = "failed" /\ st[p].err = "InsufficientReserve"
        /\ st[p].cur.found /\ ~st[p].ledgerCalled
        /\ st[q].ledgerCalled /\ st[q].applied

ReserveTotal == SumOver([s \in AssetSymbols |-> Amount(reserve[s])], AssetSymbols)
Supply == SumOver(balance, Users)
Quiescent == \A p \in Procs : st[p].pc \in {"idle", "done", "failed"}

\* the tokens settlement p added to the supply, in smallest units
Minted(p) == IF st[p].kind = "buy" THEN st[p].txAmount ELSE -st[p].txAmount

\* the part of a reserve increase that was not minted, scaled by
\* 100 * 10^decimals
NotMinted(p) ==
    IF st[p].applied /\ st[p].delta > 0
    THEN st[p].delta * Pow10(decimals) - Minted(p) * 100
    ELSE 0

\* C10 (as claimed): with reserve = supply at the start, whenever no settlement
\* is in progress the reserve is not greater than the token supply.
C10_ReserveNeverAboveSupply ==
    Quiescent => ReserveTotal * Pow10(decimals) <= Supply * 100

\* C10 (as amended): the tokens a settlement mints or burns never exceed its
\* reserve adjustment, so a failed burn leaves the reserve under-counting the
\* supply, while a failed mint leaves it over-counting: the reserve never
\* exceeds the supply by more than the reserve increases that were applied and
\* not minted.
C10_ReserveAboveSupplyOnlyByUnminted ==
    /\ \A p \in Procs : st[p].txHash # 0 =>
        /\ st[p].txAmount >= 0
        /\ st[p].kind = "sell" =>
            st[p].txAmount * 100 <= (-st[p].delta) * Pow10(decimals)
        /\ st[p].kind = "buy" =>
            st[p].txAmount * 100 <= st[p].delta * Pow10(decimals)
    /\ ReserveTotal * Pow10(decimals)
         <= Supply * 100 + SumOver([p \in Procs |-> NotMinted(p)], Procs)

\* a mint failed after its reserve increase and a burn after its decrease
C10_Witness ==
    /\ Quiescent
    /\ \E p, q \in Procs :
        /\ st[p].kind = "buy" /\ st[p].applied /\ st[p].delta > 0
        /\ st[p].pc = "failed" /\ st[p].ledgerCalled
        /\ st[q].kind = "sell" /\ st[q].applied /\ st[q].delta < 0
        /\ st[q].pc = "failed" /\ st[q].ledgerCalled

\* C31 (as claimed): a request whose asset amount is negative is not applied
\* to the reserve: the adjustment of a buy is never negative and that of a
\* sell never positive.
C31_NegativeAmountNotApplied ==
    \A p \in Procs : (st[p].kind \in {"buy", "sell"} /\ st[p].applied) =>
        /\ st[p].req.amtN >= 0
        /\ st[p].kind = "buy" => st[p].delta >= 0
        /\ st[p].kind = "sell" => st[p].delta <= 0

\* C30 (as claimed): the tokens a successful settlement mints or burns are,
\* in token units, the amount by which it raised or lowered the reserve.
C30_EffectsAgree ==
    \A p \in Procs : (st[p].kind \in {"buy", "sell"} /\ st[p].pc = "done") =>
        /\ st[p].applied
        /\ st[p].kind = "buy" => st[p].txAmount * 100 = st[p].delta * Pow10(decimals)
        /\ st[p].kind = "sell" => st[p].txAmount * 100 = (-st[p].delta) * Pow10(decimals)

\* the token call of p is a mint or burn that passed the address and the
\* identity checks
ReachedAgentCheck(call) ==
    /\ call.kind \in {"mint", "burn"}
    /\ IsAddress(call.req.user) /\ IsAddress(call.req.token)
    /\ call.req.user \in verified

InitialBalance(u) ==
    IF u = "alice" THEN (InitialAmount("AAPL") * Pow10(decimals)) \div 100 ELSE 0

\* C19: a mint or burn call that reaches the agent check with a signer that is
\* not an agent of the token fails with UnauthorizedSigner and has made no
\* gas estimation and no transaction submission; no balance changes.
C19_UnauthorizedSigner ==
    ~isAgent =>
        /\ \A p \in Procs : (ReachedAgentCheck(st[p]) /\ st[p].ledgerCalled) =>
            /\ st[p].pc = "failed" /\ st[p].err = "UnauthorizedSigner"
            /\ st[p].estimates = 0 /\ st[p].submits = 0 /\ st[p].txHash = 0
        /\ \A u \in Users : balance[u] = InitialBalance(u)

\* a mint and a burn were refused for the signer
C19_Witness ==
    \E p, q \in Procs :
        /\ st[p].kind = "mint" /\ st[p].err = "UnauthorizedSigner"
        /\ st[q].kind = "burn" /\ st[q].err = "UnauthorizedSigner"

Returned(call) == call.kind \in {"mint", "burn"} /\ call.ledgerCalled

\* C21 (as claimed): a mint or burn call with an invalid user or token address
\* or with an amount <= 0 fails, and it has made no call to the identity
\* registry or to the token contract and no submission.
C21_InvalidCallMakesNoChainCall ==
    \A p \in Procs :
        (/\ Returned(st[p])
         /\ \/ ~IsAddress(st[p].req.user) \/ ~IsAddress(st[p].req.token)
            \/ st[p].req.amtN <= 0) =>
            /\ st[p].pc = "failed"
            /\ st[p].calls = << >>
            /\ st[p].submits = 0

\* u smallest units at k decimals are the amount n / d truncated:
\* u <= (n / d) * 10^k < u + 1
IsTruncated(n, d, k, u) ==
    u * d <= n * Pow10(k) /\ n * Pow10(k) < (u + 1) * d

\* C22 (as claimed): the amount a mint or burn call submits is the amount
\* argument scaled by 10^decimals, with the decimals the call read from the
\* contract, and truncated: it is floor(amount * 10^decimals) and never
\* exceeds amount * 10^decimals; for amount 1.005 and decimals 2 it is 100.
C22_RescaleTruncates ==
    \A p \in Procs : (Returned(st[p]) /\ st[p].txHash # 0) =>
        /\ st[p].session.read /\ st[p].session.decimals = decimals
        /\ IsTruncated(st[p].req.amtN, st[p].req.amtD, decimals, st[p].txAmount)
        /\ st[p].txAmount * st[p].req.amtD <= st[p].req.amtN * Pow10(decimals)
        /\ (st[p].req.amtN = 1005 /\ st[p].req.amtD = 1000 /\ decimals = 2) =>
                st[p].txAmount = 100

\* the chain call `first` was made before the chain call `second`
Before(calls, first, second) ==
    \E i, j \in 1..Len(calls) : i < j /\ calls[i] = first /\ calls[j] = second

\* C23: a call that has submitted a mint or burn transaction, accepted or
\* rejected, has estimated the gas of that call before, once, and submitted
\* with gas limit floor(estimate * 120 / 100), which is not below the estimate.
C23_GasLimitFromEstimate ==
    \A p \in Procs : st[p].submits > 0 =>
        /\ st[p].estimates = 1
        /\ Before(st[p].calls, "estimateGas", "submit")
        /\ st[p].gasEstimate \in GasQuotes
        /\ 100 * st[p].gasLimit <= 120 * st[p].gasEstimate
        /\ 120 * st[p].gasEstimate < 100 * (st[p].gasLimit + 1)
        /\ st[p].gasLimit >= st[p].gasEstimate

\* a mint was accepted with limit 25201 for the estimate 21001, a burn was
\* rejected with limit 60000 for the estimate 50000
C23_Witness ==
    \E p, q \in Procs :
        /\ st[p].kind = "mint" /\ st[p].pc = "done"
        /\ st[p].gasEstimate = 21001 /\ st[p].gasLimit = 25201
        /\ st[q].kind = "burn" /\ st[q].pc = "failed" /\ st[q].submits = 1
        /\ st[q].gasEstimate = 50000 /\ st[q].gasLimit = 60000

\* C24 (as claimed): the request decoded from a buy event has asset amount
\* fiatAmount / (price / 100), and the settlement mints that quotient
\* truncated to the token's decimals: floor(fiatAmount * 100 * 10^decimals /
\* price) smallest units.
C24_BuyEventMintsTruncatedQuotient ==
    \A p \in Procs : (st[p].kind = "buy" /\ st[p].ev # 0 /\ st[p].pc = "done") =>
        LET e == EventLog[st[p].ev]
        IN  /\ st[p].req.amtN * e.price = e.usdcAmount * 100 * st[p].req.amtD
            /\ st[p].txAmount = (e.usdcAmount * 100 * Pow10(decimals)) \div e.price

\* the place of a chain call in the order the protocol is stated in:
\* identity verification, signer resolution (no chain call), agent check,
\* decimals and rescaling, balance check, gas estimation, submission
StatedRank(c) ==
    CASE c = "isVerified" -> 1
      [] c = "isAgent" -> 3
      [] c = "decimals" -> 4
      [] c = "balanceOf" -> 5
      [] c = "estimateGas" -> 6
      [] c = "submit" -> 7

\* the step of that order at which a failure is reported
FailingRank(e) ==
    CASE e = "InvalidAddress" -> 0
      [] e = "IdentityNotVerified" -> 1
      [] e = "UnauthorizedSigner" -> 3
      [] e = "InsufficientBalance" -> 5
      [] OTHER -> 7

\* C25 (as claimed): a mint or burn call makes its chain calls in the stated
\* order, reports the failure of the earliest failing step, and when it fails
\* it has made no chain call of a later step.
C25_StepsInStatedOrder ==
    \A p \in Procs : Returned(st[p]) =>
        LET calls == st[p].calls
            reached == IsAddress(st[p].req.user) /\ IsAddress(st[p].req.token)
        IN  /\ \A i, j \in 1..Len(calls) :
                    i < j => StatedRank(calls[i]) < StatedRank(calls[j])
            /\ (reached /\ st[p].req.user \notin verified) =>
                    st[p].err = "IdentityNotVerified"
            /\ (reached /\ st[p].req.user \in verified /\ ~isAgent) =>
                    st[p].err = "UnauthorizedSigner"
            /\ st[p].pc = "failed" =>
                    \A i \in 1..Len(calls) :
                        StatedRank(calls[i]) <= FailingRank(st[p].err)

\* C28 (as claimed): the request a handler builds from a buy or a sell event
\* has the event's fiatAmount as fiat amount, fiatAmount / (price / 100) as
\* asset amount, and the event's requester, ticker and token.
C28_RequestFromFiatAndPrice ==
    \A p \in Procs : st[p].ev # 0 =>
        LET e == EventLog[st[p].ev]
            req == st[p].req
        IN  /\ req.usdcAmount = e.usdcAmount
            /\ req.amtN * e.price = e.usdcAmount * 100 * req.amtD
            /\ req.user = e.user /\ req.assetSymbol = e.ticker
            /\ req.token = e.token

\* C29: every mint and burn call that passes the identity check reads the
\* decimals and the agent status the contract has during that call: it fails
\* with UnauthorizedSigner exactly when the signer is not an agent then, and
\* the amount it submits is scaled by the decimals the contract has then,
\* whatever an earlier call has read.
C29_SessionReadPerCall ==
    [][\A p \in Procs :
        (LedgerStep(p) /\ ReachedAgentCheck(st[p])) =>
            /\ st'[p].session = [read |-> TRUE, decimals |-> decimals,
                                 isAgent |-> isAgent]
            /\ Before(st'[p].calls, "decimals", "isAgent")
            /\ (st'[p].err = "UnauthorizedSigner") <=> ~isAgent
            /\ st'[p].txHash # 0 =>
                    IsTruncated(st[p].req.amtN, st[p].req.amtD, decimals,
                                st'[p].txAmount)]_vars

\* a mint of 1.005 was submitted as 10 units at 1 decimal; the contract was
\* re-configured, and the next mint read 2 decimals and the signer's lost
\* authorization
C29_Witness ==
    \E p, q \in Procs :
        /\ st[p].kind = "mint" /\ st[p].pc = "done" /\ st[p].req.amtN = 1005
        /\ st[p].session.decimals = 1 /\ st[p].txAmount = 10
        /\ st[q].kind = "mint" /\ st[q].err = "UnauthorizedSigner"
        /\ st[q].session = [read |-> TRUE, decimals |-> 2, isAgent |-> FALSE]

\* the listeners for an event kind that a live provider calls
Registered(kind) == Cardinality(Handlers(kind))

\* the settlements started by delivery number dl of event ev
StartedBy(ev, dl) == {p \in Procs : st[p].ev = ev /\ st[p].dl = dl}

Reconnecting == {t \in subs : t.reconnect}

\* C6 (as claimed): at most one buy handler and one sell handler are
\* registered, and one delivery of an event starts at most one settlement.
C6_NoDuplicateHandlers ==
    /\ \A kind \in EventKinds : Registered(kind) <= 1
    /\ \A ev \in Events, dl \in 1..MaxDeliveries :
        Cardinality(StartedBy(ev, dl)) <= 1

\* C7 (as claimed): at most one reconnect attempt is in progress.
C7_ReconnectSingleFlight == Cardinality(Reconnecting) <= 1

\* C8 (as claimed): however often an event is delivered, at most one reserve
\* adjustment and at most one mint or burn submission are made for it.
C8_DuplicateDeliveryOneSettlement ==
    \A ev \in Events :
        /\ Cardinality({p \in Procs : st[p].ev = ev /\ st[p].applied}) <= 1
        /\ Cardinality({p \in Procs : st[p].ev = ev /\ st[p].txHash # 0}) <= 1

\* a step in which the settlement of an event fails
EventCallFails ==
    \E p \in Procs : st[p].ev # 0 /\ st[p].pc # "failed" /\ st'[p].pc = "failed"

\* the contracts with a listener for this kind on an open provider
Listening(kind) ==
    {i \in 1..Len(contracts) :
        kind \in contracts[i].listeners /\ contracts[i].provider \in provOpen}

\* C15: a step in which the settlement of an event fails removes no listener
\* and leaves the subscription as it is, and every event delivered later to a
\* registered listener still starts its settlement.
C15_HandlerFailureIsolated ==
    /\ [][EventCallFails =>
            /\ UNCHANGED <<contracts, provOpen, orderContract, wssProvider, subs>>
            /\ \A kind \in EventKinds : Handlers(kind)' = Listening(kind)]_vars
    /\ [][\A ev \in Events :
            (delivered'[ev] = delivered[ev] + 1 /\ Listening(EventLog[ev].kind) # {}) =>
                \E p \in Procs : /\ st[p].pc = "idle"
                                 /\ st'[p].ev = ev /\ st'[p].dl = delivered'[ev]]_vars

\* the settlement of one event failed and an event delivered after that
\* started its settlement
C15_Witness ==
    \E p, q \in Procs :
        /\ st[p].ev # 0 /\ st[p].pc = "failed"
        /\ st[q].ev # 0 /\ st[q].after >= 1 /\ st[q].pc = "done"

\* a step of checkLatestBlock that is not a repetition without effect
TickStep == lastProbe' # lastProbe \/ providers' # providers

\* the reconnect attempts that reach `await ready` in this step
NewAttempts == {t \in subs' : t.reconnect} \ {t \in subs : t.reconnect}

\* C16: a probe tick whose query times out or returns no value calls the
\* reconnect, which, once a subscription had been made, opens a new provider
\* and waits to subscribe on it; a tick whose query returns a block number
\* starts no reconnect and leaves the connection and the listeners untouched.
C16_ProbeStartsReconnect ==
    [][TickStep =>
        IF lastProbe'.outcome = "block"
        THEN /\ ~lastProbe'.reconnect
             /\ UNCHANGED <<wssProvider, providers, provOpen, orderContract,
                            contracts, subs>>
        ELSE /\ lastProbe'.reconnect
             /\ orderContract # 0 =>
                    /\ NewAttempts = {[provider |-> wssProvider', reconnect |-> TRUE]}
                    /\ wssProvider' # wssProvider
                    /\ wssProvider \notin provOpen']_vars

\* a probe without value started a reconnect that subscribed, and the probe
\* after it returned a block number and left the listeners
C16_Witness ==
    /\ providers = 1 /\ wssProvider = 1 /\ subs = {}
    /\ lastProbe.outcome = "block" /\ lastProbe.provider = 1
    /\ \A kind \in EventKinds : Cardinality(Listening(kind)) = 1

\* no listener is registered and no subscription attempt is in progress,
\* after a subscription had been made: a reconnect attempt has failed
Stranded ==
    /\ shutdowns = 0 /\ orderContract # 0 /\ subs = {}
    /\ \A kind \in EventKinds : Listening(kind) = {}

\* C17 (as claimed): after a failed reconnect attempt the next probe tick
\* starts a reconnect attempt; attempts are started by probe ticks only, at
\* most one per tick.
C17_FailedReconnectRetried ==
    /\ [][(Stranded /\ TickStep) => NewAttempts # {}]_vars
    /\ [][NewAttempts # {} => (TickStep /\ Cardinality(NewAttempts) = 1)]_vars

\* the subscribeToEvents call of a reconnect attempt that registers its
\* listeners in this step
Resubscribes(t) ==
    t \in subs /\ t \notin subs' /\ t.reconnect /\ Len(contracts') = Len(contracts) + 1

\* C26 (as claimed): a reconnect attempt removes the listeners and destroys
\* the old provider before it opens the new one, registers its new listeners
\* on the provider that this attempt opened, and no listener is ever left
\* registered on a destroyed provider.
C26_ReconnectStepsInOrder ==
    /\ [][NewAttempts # {} =>
            /\ orderContract # 0 /\ contracts'[orderContract].listeners = {}
            /\ wssProvider \notin provOpen'
            /\ wssProvider' \in provOpen' /\ wssProvider' \notin 0..providers]_vars
    /\ [][\A t \in subs : Resubscribes(t) =>
            /\ contracts'[Len(contracts')].provider = t.provider
            /\ contracts'[Len(contracts')].listeners = EventKinds]_vars
    /\ [](\A i \in 1..Len(contracts) :
            contracts[i].listeners # {} => contracts[i].provider \in provOpen)

\* the connection state of the ingestor, read off the fields of the listener:
\* Connecting until the first subscription has been made, Subscribed while the
\* listeners of orderContract are registered on an open provider, else
\* Reconnecting while a reconnect attempt waits to subscribe, else Degraded
ConnState ==
    IF orderContract = 0 THEN "Connecting"
    ELSE IF /\ contracts[orderContract].listeners # {}
            /\ contracts[orderContract].provider \in provOpen THEN "Subscribed"
    ELSE IF Reconnecting # {} THEN "Reconnecting"
    ELSE "Degraded"

\* the listed transitions; a failed probe calls the reconnect in the same
\* tick, so that Subscribed -> Degraded -> Reconnecting is one step of the code
ConnTransitions ==
    {<<"Connecting", "Subscribed">>, <<"Subscribed", "Degraded">>,
     <<"Degraded", "Reconnecting">>, <<"Subscribed", "Reconnecting">>,
     <<"Reconnecting", "Subscribed">>, <<"Reconnecting", "Reconnecting">>,
     <<"Reconnecting", "Degraded">>}

C18_ShutdownClosesTransport ==
    shutdowns >= 1 =>
        /\ wssProvider \notin provOpen
        /\ \A kind \in EventKinds : Listening(kind) = {}

\* C33 (as claimed): a reconnect called while the order-contract handle is
\* still unset destroys the old provider, opens a new one and waits to
\* subscribe on it.
C33_ReconnectWithoutContract ==
    [][(TickStep /\ lastProbe'.reconnect /\ orderContract = 0) =>
        /\ wssProvider \notin provOpen'
        /\ wssProvider' # wssProvider /\ wssProvider' \in provOpen'
        /\ NewAttempts # {}]_vars

\* a step that opens a connection, registers listeners or starts the
\* settlement of an event
Establishes ==
    \/ providers' # providers
    \/ Len(contracts') # Len(contracts)
    \/ \E p \in Procs : st[p].ev = 0 /\ st'[p].ev # 0

\* C34 (as claimed): once onModuleDestroy has returned no listener is
\* registered, and no step after it opens a connection, registers listeners
\* or starts the settlement of an event.
C34_NothingAfterShutdown ==
    /\ [](shutdowns >= 1 => \A kind \in EventKinds : Listening(kind) = {})
    /\ [][shutdowns >= 1 => ~Establishes]_vars

\* a sell that has failed because its asset has no reserve record
NoRecordSell(call) == call.kind = "sell" /\ call.err = "ReserveNotFound"

\* C37: a sell whose asset has no reserve record when sellOrder reads it fails
\* in that step with ReserveNotFound, and the step changes no reserve and
\* creates no record; such a sell has made no reserve update and no call of
\* burnTokens, and takes no further step.
C37_SellWithoutRecordFails ==
    /\ [][\A p \in Procs :
            (/\ st[p].kind = "sell" /\ st[p].pc = "read" /\ st'[p] # st[p]
             /\ ~reserve[st[p].req.assetSymbol].found) =>
                /\ st'[p].pc = "failed" /\ st'[p].err = "ReserveNotFound"
                /\ reserve' = reserve]_vars
    /\ [](\A p \in Procs : NoRecordSell(st[p]) =>
            /\ st[p].pc = "failed" /\ ~st[p].applied /\ st[p].delta = 0
            /\ ~st[p].ledgerCalled /\ st[p].calls = << >>
            /\ st[p].estimates = 0 /\ st[p].submits = 0 /\ st[p].txHash = 0)
    /\ [][\A p \in Procs : NoRecordSell(st[p]) => st'[p] = st[p]]_vars

\* a sell of TSLA, which has no record, has failed and TSLA still has none,
\* while a buy has been applied to the reserve of AAPL
C37_Witness ==
    \E p, q \in Procs :
        /\ NoRecordSell(st[p]) /\ st[p].req.assetSymbol = "TSLA"
        /\ st[p].req.amtN > 0 /\ ~reserve["TSLA"].found
        /\ st[q].kind = "buy" /\ st[q].applied /\ st[q].req.assetSymbol = "AAPL"

\* C35: a mintTokens or burnTokens call whose registry query fails is
\* treated as a call for a user who is not verified: it fails with
\* IdentityNotVerified after that one query, without a read of the token,
\* a gas estimate or a submission, and the step changes no balance.
C35_IdentityCheckFailsClosed ==
    /\ [](\A p \in Procs : st[p].registry = "failed" =>
            /\ st[p].pc = "failed" /\ st[p].err = "IdentityNotVerified"
            /\ st[p].calls = <<"isVerified">> /\ st[p].session = NoSession
            /\ st[p].estimates = 0 /\ st[p].submits = 0 /\ st[p].txHash = 0)
    /\ [][\A p \in Procs :
            (st[p].registry = "" /\ st'[p].registry = "failed") =>
                balance' = balance]_vars

\* the mint for verified alice failed because the registry query failed,
\* while her burn, for which the registry answered, was submitted
C35_Witness ==
    \E p, q \in Procs :
        /\ st[p].kind = "mint" /\ st[p].req.user = "alice"
        /\ st[p].registry = "failed" /\ st[p].err = "IdentityNotVerified"
        /\ st[q].kind = "burn" /\ st[q].req.user = "alice"
        /\ st[q].registry = "answered" /\ st[q].pc = "done"

\* the transaction of withdrawal w is the only one in the signer's pool
OnlyPending(w) == signer.pool = {[nonce |-> Withdrawal(w).nonce, by |-> w]}

\* C36 (as claimed): withdrawUSDC submits its transaction with the nonce
\* equal to the transaction count it read for the signer, and a withdrawal
\* whose transaction is the only one the signer has pending can be mined: its
\* nonce is the signer's transaction count.
C36_WithdrawUsesNextNonce ==
    \A w \in Withdrawals :
        /\ Withdrawal(w).pc \in {"wait", "done"} =>
                Withdrawal(w).nonce = Withdrawal(w).currentNonce
        /\ (Withdrawal(w).pc = "wait" /\ OnlyPending(w)) =>
                Withdrawal(w).nonce = signer.count

\* the last probe returned a block number, in a service that had subscribed
\* (a first subscription that fails makes onModuleInit throw) and is not
\* shut down
ProbesSucceed ==
    orderContract # 0 /\ shutdowns = 0 /\ lastProbe.outcome = "block"

\* a buy handler and a sell handler are registered on an open provider
Subscribed == \A kind \in EventKinds : Listening(kind) # {}

\* C32 (as claimed): when from some point on every probe succeeds, the
\* ingestor has an active subscription again and again, also after a
\* reconnect attempt that failed: it never rests in a state where the probes
\* succeed and no handler is registered.
C32_HealthyProbesLeadToSubscription == <>[]ProbesSucceed => []<>Subscribed

====
